---- MODULE Spec2Model ----
(***************************************************************************)
(* Model of DramaChecker (src/main.py): the episode detector               *)
(* (find_episodes and its regular expression), the tracking sheet, and the *)
(* row loop and e-mail step of main().                                     *)
(*                                                                         *)
(* Text is a tuple of one-character strings.  An Optional[int] is the      *)
(* empty tuple (None) or a one-element tuple <<n>>.                        *)
(***************************************************************************)
EXTENDS Integers, Sequences, FiniteSets, TLC

(***************************************************************************)
(* Bounds of the model.                                                    *)
(***************************************************************************)
\* the longest list of <p> tags of a page given to find_episodes
MaxTags == 2
\* the largest number of data rows of the sheet
MaxRows == 2

(***************************************************************************)
(* Optional values and small helpers.                                      *)
(***************************************************************************)
None == <<>>

Some(n) == <<n>>

\* Python's `x or 0` for an Optional[int]: None and 0 both give 0.
OrZero(x) == IF x = None THEN 0 ELSE x[1]

SetMax(S) == CHOOSE m \in S : \A n \in S : n <= m

(***************************************************************************)
(* Characters.                                                             *)
(***************************************************************************)
Digits == <<"0", "1", "2", "3", "4", "5", "6", "7", "8", "9">>

IsDigit(c) == \E d \in 1..10 : Digits[d] = c

DigitVal(c) == (CHOOSE d \in 1..10 : Digits[d] = c) - 1

\* \s of the regular expressions and the characters str.strip() removes
IsSpace(c) == c \in {" ", "\t", "\n"}

\* the letters of the token, folded as re.IGNORECASE folds them
Lower(c) ==
  CASE c = "O" -> "o" [] c = "D" -> "d" [] c = "C" -> "c" [] c = "I" -> "i"
    [] c = "N" -> "n" [] c = "E" -> "e" [] c = "K" -> "k" [] OTHER -> c

\* int() of a run of digits
RECURSIVE IntOf(_)
IntOf(ds) ==
  IF ds = <<>> THEN 0
  ELSE IntOf(SubSeq(ds, 1, Len(ds) - 1)) * 10 + DigitVal(ds[Len(ds)])

\* str() of a non-negative int
RECURSIVE StrOf(_)
StrOf(n) == IF n < 10 THEN <<Digits[n + 1]>> ELSE StrOf(n \div 10) \o <<Digits[(n % 10) + 1]>>

\* re.sub(r"\D", "", s)
RECURSIVE OnlyDigits(_)
OnlyDigits(s) ==
  IF s = <<>> THEN <<>>
  ELSE (IF IsDigit(Head(s)) THEN <<Head(s)>> ELSE <<>>) \o OnlyDigits(Tail(s))

\* str.strip()
RECURSIVE LStrip(_)
LStrip(s) == IF s /= <<>> /\ IsSpace(Head(s)) THEN LStrip(Tail(s)) ELSE s

RECURSIVE RStrip(_)
RStrip(s) ==
  IF s /= <<>> /\ IsSpace(s[Len(s)]) THEN RStrip(SubSeq(s, 1, Len(s) - 1)) ELSE s

Strip(s) == RStrip(LStrip(s))

(***************************************************************************)
(* The regular expressions  Odcinek\s*(\d+)                                *)
(***************************************************************************)
Token == <<"O", "d", "c", "i", "n", "e", "k">>

\* the literal part matches text at position i; fold = re.IGNORECASE
LiteralAt(text, i, fold) ==
  /\ i + Len(Token) - 1 <= Len(text)
  /\ \A k \in 1..Len(Token) :
       IF fold THEN Lower(text[i + k - 1]) = Lower(Token[k])
       ELSE text[i + k - 1] = Token[k]

\* the first position at or after i that is not white space (greedy \s*)
RECURSIVE SkipSpace(_, _)
SkipSpace(text, i) ==
  IF i <= Len(text) /\ IsSpace(text[i]) THEN SkipSpace(text, i + 1) ELSE i

\* the end of the run of digits that starts at i (greedy \d+), i - 1 if none
RECURSIVE DigitsEnd(_, _)
DigitsEnd(text, i) ==
  IF i <= Len(text) /\ IsDigit(text[i]) THEN DigitsEnd(text, i + 1) ELSE i - 1

\* the pattern matches at position i
MatchAt(text, i, fold) ==
  /\ LiteralAt(text, i, fold)
  /\ LET j == SkipSpace(text, i + Len(Token))
     IN  j <= Len(text) /\ IsDigit(text[j])

\* pattern.search(text): group(1) of the leftmost match as a number, or None
Search(text, fold) ==
  LET starts == {i \in 1..Len(text) : MatchAt(text, i, fold)}
  IN  IF starts = {} THEN None
      ELSE LET i == CHOOSE s \in starts : \A t \in starts : s <= t
               j == SkipSpace(text, i + Len(Token))
           IN  Some(IntOf(SubSeq(text, j, DigitsEnd(text, j))))

\* EPISODE_RE = re.compile(r"Odcinek\s*(\d+)", re.IGNORECASE)
EPISODE_RE(text) == Search(text, TRUE)

\* EPISODE_ANY_RE = re.compile(r"Odcinek\s*(\d+)")
EPISODE_ANY_RE(text) == Search(text, FALSE)

\* extract_episode_number(text)
extract_episode_number(text) == EPISODE_ANY_RE(text)

(***************************************************************************)
(* Parsed markup.  A page is what BeautifulSoup hands to find_episodes:    *)
(* the <p> tags in document order, each with its class tokens and its      *)
(* descendant nodes (text nodes and <img> tags); malformed stands for      *)
(* markup on which the scan raises.                                        *)
(***************************************************************************)
Img == [img |-> TRUE, text |-> <<>>]

Txt(t) == [img |-> FALSE, text |-> t]

PTag(cls, children) == [class |-> cls, children |-> children]

\* sub occurs in s (Python's `sub in s`)
Contains(s, sub) ==
  \E i \in 1..(Len(s) - Len(sub) + 1) : SubSeq(s, i, i + Len(sub) - 1) = sub

TogglerWord == <<"t", "o", "g", "g", "l", "e", "r">>

\* class_=lambda c: c and "toggler" in c, tried on every class token
IsToggler(p) == \E k \in 1..Len(p.class) : Contains(p.class[k], TogglerWord)

\* soup.find_all("p", class_=...)
RECURSIVE find_all(_)
find_all(tags) ==
  IF tags = <<>> THEN <<>>
  ELSE (IF IsToggler(Head(tags)) THEN <<Head(tags)>> ELSE <<>>) \o find_all(Tail(tags))

\* p.get_text(" ", strip=True): the stripped, non-empty text nodes joined by " "
RECURSIVE get_text(_)
get_text(children) ==
  IF children = <<>> THEN <<>>
  ELSE LET piece == IF Head(children).img THEN <<>> ELSE Strip(Head(children).text)
           rest  == get_text(Tail(children))
       IN  IF piece = <<>> THEN rest
           ELSE IF rest = <<>> THEN piece
           ELSE piece \o <<" ">> \o rest

\* p.find("img") is not None
has_img(p) == \E k \in 1..Len(p.children) : p.children[k].img

(***************************************************************************)
(* Messages: the strings of the problems list and of a result's error,     *)
(* kept as their parts (what the f-string interpolates).                   *)
(***************************************************************************)
Msg(kind, nazwa, code) == [kind |-> kind, nazwa |-> nazwa, code |-> code]

\* EpisodeCheckResult
EpisodeCheckResult(latest_ready, max_found, error) ==
  [latest_ready |-> latest_ready, max_found |-> max_found, error |-> error]

\* ScanTags with the comparisons against the running maxima left out
RECURSIVE ScanTags_last(_, _, _, _)
ScanTags_last(p_tags, i, latest_ready, max_found) ==
  IF i > Len(p_tags) THEN <<latest_ready, max_found>>
  ELSE LET p    == p_tags[i]
           num  == extract_episode_number(get_text(p.children))
           max2 == IF num /= None THEN num ELSE max_found
           lat2 == IF ~has_img(p) /\ num /= None THEN num ELSE latest_ready
       IN  ScanTags_last(p_tags, i + 1, lat2, max2)

\* the body of the loop `for p in p_tags` of find_episodes, from tag i on
RECURSIVE ScanTags(_, _, _, _)
ScanTags(p_tags, i, latest_ready, max_found) ==
  IF i > Len(p_tags) THEN <<latest_ready, max_found>>
  ELSE LET p    == p_tags[i]
           num  == extract_episode_number(get_text(p.children))
           max2 == IF num /= None /\ (max_found = None \/ num[1] > max_found[1])
                   THEN num ELSE max_found
           lat2 == IF ~has_img(p) /\ num /= None
                      /\ (latest_ready = None \/ num[1] > latest_ready[1])
                   THEN num ELSE latest_ready
       IN  ScanTags(p_tags, i + 1, lat2, max2)

\* find_episodes(html)
find_episodes(html) ==
  IF html.malformed
  THEN EpisodeCheckResult(None, None, <<Msg("parse_error", "", 0)>>)
  ELSE LET r == ScanTags(find_all(html.tags), 1, None, None)
       IN  IF r[1] = None /\ r[2] = None
           THEN EpisodeCheckResult(None, None, <<Msg("no_heading", "", 0)>>)
           ELSE EpisodeCheckResult(r[1], r[2], None)

(***************************************************************************)
(* Inputs of the detector.                                                 *)
(***************************************************************************)
Odc == <<"O", "d", "c", "i", "n", "e", "k", " ">>

TogglerCls == <<TogglerWord>>

\* <p class="toggler">Odcinek 6</p>
TagReady6 == PTag(TogglerCls, <<Txt(Odc \o <<"6">>)>>)

\* <p class="toggler"><img/> Odcinek 7</p>
TagImg7 == PTag(TogglerCls, <<Img, Txt(<<" ">> \o Odc \o <<"7">>)>>)

\* <p class="toggler">odcinek 8</p>
TagLower8 == PTag(TogglerCls, <<Txt(<<"o", "d", "c", "i", "n", "e", "k", " ", "8">>)>>)

\* <p class="toggler">ODCINEK 9 <img/></p>
TagUpper9 == PTag(TogglerCls, <<Txt(<<"O", "D", "C", "I", "N", "E", "K", " ", "9", " ">>), Img>>)

\* <p class="toggler">Korekta</p>
TagNoNumber == PTag(TogglerCls, <<Txt(<<"K", "o", "r", "e", "k", "t", "a">>)>>)

\* <p class="title">Odcinek 20</p>
TagOtherClass == PTag(<<<<"t", "i", "t", "l", "e">>>>, <<Txt(Odc \o <<"2", "0">>)>>)

\* <p>Odcinek 30</p>
TagNoClass == PTag(<<>>, <<Txt(Odc \o <<"3", "0">>)>>)

\* <p class="box toggler-open">Odcinek <b>13</b> - Final</p>
TagSplit13 ==
  PTag(<<<<"b", "o", "x">>, TogglerWord \o <<"-", "o", "p", "e", "n">>>>,
       <<Txt(Odc), Txt(<<"1", "3">>), Txt(<<" ", "-", " ", "F", "i", "n", "a", "l">>)>>)

\* <p class="toggler">Odcinek: Odcinek12<img/></p>
TagImg12 == PTag(TogglerCls, <<Txt(<<"O", "d", "c", "i", "n", "e", "k", ":", " ">> \o
                                   <<"O", "d", "c", "i", "n", "e", "k", "1", "2">>), Img>>)

\* <p class="toggler">Odcinek 0</p>
TagReady0 == PTag(TogglerCls, <<Txt(Odc \o <<"0">>)>>)

TagSet ==
  {TagReady6, TagImg7, TagLower8, TagUpper9, TagNoNumber, TagOtherClass,
   TagNoClass, TagSplit13, TagImg12, TagReady0}

RECURSIVE SeqsUpTo(_, _)
SeqsUpTo(S, n) ==
  IF n = 0 THEN {<<>>}
  ELSE LET shorter == SeqsUpTo(S, n - 1)
       IN  shorter \cup {Append(q, x) : q \in shorter, x \in S}

Html(malformed, tags) == [malformed |-> malformed, tags |-> tags]

\* every page of at most MaxTags <p> tags
Pages == {Html(m, t) : m \in BOOLEAN, t \in SeqsUpTo(TagSet, MaxTags)}

NoPage == Html(FALSE, <<>>)

NoResult == EpisodeCheckResult(None, None, None)

(***************************************************************************)
(* The tracking sheet.  A data row holds its cells as text, the way        *)
(* ws.get_all_values() returns them; row k of the sequence is sheet row    *)
(* k + 1 (row 1 is the header).                                            *)
(***************************************************************************)
Cell(nazwa, link, obejrzany, na_stronie, liczba) ==
  [nazwa |-> nazwa, link |-> link, obejrzany_odcinek |-> obejrzany,
   odcinek_na_stronie |-> na_stronie, liczba_odcinkow |-> liczba]

\* parse_int(value, default) on a str value
parse_int(value, default) ==
  LET s == Strip(value)
  IN  IF s = <<>> THEN default
      ELSE IF OnlyDigits(s) = <<>> THEN default
      ELSE IntOf(OnlyDigits(s))

\* SeriesRow
SeriesRow(row_idx, nazwa, link, obejrzany, na_stronie, liczba) ==
  [row_idx |-> row_idx, nazwa |-> nazwa, link |-> link,
   obejrzany_odcinek |-> obejrzany, odcinek_na_stronie |-> na_stronie,
   liczba_odcinkow |-> liczba]

\* is_done that takes a row of zeros for a row not yet filled in
is_done_nonzero(s) ==
  /\ s.obejrzany_odcinek = s.odcinek_na_stronie
  /\ s.odcinek_na_stronie = s.liczba_odcinkow
  /\ s.obejrzany_odcinek > 0

\* SeriesRow.is_done
is_done(s) ==
  s.obejrzany_odcinek = s.odcinek_na_stronie /\ s.odcinek_na_stronie = s.liczba_odcinkow

\* read_series(ws): every data row as a SeriesRow, row_idx counted from 2
read_series(ws) ==
  [k \in 1..Len(ws) |->
     SeriesRow(k + 1, ws[k].nazwa, ws[k].link,
               parse_int(ws[k].obejrzany_odcinek, 0),
               parse_int(ws[k].odcinek_na_stronie, 0),
               parse_int(ws[k].liczba_odcinkow, 0))]

\* update_cell(ws, row_idx, col, value) when the store accepts the write
update_cell(ws, row_idx, col, value) ==
  [ws EXCEPT ![row_idx - 1] = [@ EXCEPT ![col] = StrOf(value)]]

(***************************************************************************)
(* Fetching.  A response is what session.get gives: it raises, or it has   *)
(* a status code and a body.                                               *)
(***************************************************************************)
Response(raises, status_code, text) ==
  [raises |-> raises, status_code |-> status_code, text |-> text]

\* check_series without the test of the status code
check_series_nostatus(resp, series) ==
  IF resp.raises
  THEN EpisodeCheckResult(None, None, <<Msg("fetch_error", series.nazwa, 0)>>)
  ELSE find_episodes(resp.text)

\* check_series(session, series), on the response of session.get
check_series(resp, series) ==
  IF resp.raises
  THEN EpisodeCheckResult(None, None, <<Msg("fetch_error", series.nazwa, 0)>>)
  ELSE IF resp.status_code /= 200
  THEN EpisodeCheckResult(None, None, <<Msg("http", series.nazwa, resp.status_code)>>)
  ELSE find_episodes(resp.text)

\* `if result.error:` -- None and the empty string are falsy
Truthy(error) == error /= None

(***************************************************************************)
(* The reconciler: the two try blocks of main's loop body.  loc is the     *)
(* loop body's view of the state: the sheet, the row s, the problems       *)
(* list, the log of update_cell calls, and whether an exception left the   *)
(* block uncaught.  outcome is what ws.update_cell does: "ok", "APIError"  *)
(* (gspread's APIError) or "other" (any other exception, such as a         *)
(* requests transport error).                                              *)
(***************************************************************************)
WriteOutcomes == {"ok", "APIError", "other"}

Attempt(row_idx, col, value, outcome) ==
  [row_idx |-> row_idx, col |-> col, value |-> value, outcome |-> outcome]

\* the comparison as "differs from the stored value"
SiteIsNewer_ne(latest_ready, s) == latest_ready /= s.odcinek_na_stronie

\* `if latest_ready > s.odcinek_na_stronie`
SiteIsNewer(latest_ready, s) == latest_ready > s.odcinek_na_stronie

\* the comparison as "at least the stored value"
TotalIsNewer_ge(max_found, s) == max_found >= s.liczba_odcinkow

\* `if max_found > s.liczba_odcinkow`
TotalIsNewer(max_found, s) == max_found > s.liczba_odcinkow

\* SiteUpdate with the in-memory row assigned before update_cell is called
SiteUpdate_early(loc, latest_ready, outcome) ==
  IF ~(latest_ready > loc.s.odcinek_na_stronie) THEN loc
  ELSE LET att == Append(loc.attempts,
                         Attempt(loc.s.row_idx, "odcinek_na_stronie", latest_ready, outcome))
           mem == [loc EXCEPT !.attempts = att,
                              !.s = [@ EXCEPT !.odcinek_na_stronie = latest_ready]]
       IN  CASE outcome = "ok" ->
                  [mem EXCEPT !.sheet = update_cell(@, loc.s.row_idx, "odcinek_na_stronie", latest_ready)]
             [] outcome = "APIError" ->
                  [mem EXCEPT !.problems = Append(@, Msg("update_site", loc.s.nazwa, 0))]
             [] OTHER ->
                  [mem EXCEPT !.raised = TRUE]

\* 3a: try: update 'odcinek_na_stronie' ... except APIError
SiteUpdate(loc, latest_ready, outcome) ==
  IF ~SiteIsNewer(latest_ready, loc.s) THEN loc
  ELSE LET att == Append(loc.attempts,
                         Attempt(loc.s.row_idx, "odcinek_na_stronie", latest_ready, outcome))
       IN  CASE outcome = "ok" ->
                  [loc EXCEPT !.attempts = att,
                              !.sheet = update_cell(@, loc.s.row_idx, "odcinek_na_stronie", latest_ready),
                              !.s = [@ EXCEPT !.odcinek_na_stronie = latest_ready]]
             [] outcome = "APIError" ->
                  [loc EXCEPT !.attempts = att,
                              !.problems = Append(@, Msg("update_site", loc.s.nazwa, 0))]
             [] OTHER ->
                  [loc EXCEPT !.attempts = att, !.raised = TRUE]

\* try: update 'liczba_odcinkow' ... except APIError
TotalUpdate(loc, max_found, outcome) ==
  IF ~TotalIsNewer(max_found, loc.s) THEN loc
  ELSE LET att == Append(loc.attempts,
                         Attempt(loc.s.row_idx, "liczba_odcinkow", max_found, outcome))
       IN  CASE outcome = "ok" ->
                  [loc EXCEPT !.attempts = att,
                              !.sheet = update_cell(@, loc.s.row_idx, "liczba_odcinkow", max_found),
                              !.s = [@ EXCEPT !.liczba_odcinkow = max_found]]
             [] outcome = "APIError" ->
                  [loc EXCEPT !.attempts = att,
                              !.problems = Append(@, Msg("update_total", loc.s.nazwa, 0))]
             [] OTHER ->
                  [loc EXCEPT !.attempts = att, !.raised = TRUE]

\* the comparison as "not ahead of the site"
ShouldNotify_le(s) == s.obejrzany_odcinek <= s.odcinek_na_stronie

\* 3b: `if s.obejrzany_odcinek < s.odcinek_na_stronie`
ShouldNotify(s) == s.obejrzany_odcinek < s.odcinek_na_stronie

\* the dict appended to new_items
Item(s) ==
  [tytul |-> s.nazwa, nowy_odcinek |-> s.odcinek_na_stronie,
   ostatni_obejrzany |-> s.obejrzany_odcinek, link |-> s.link]

\* `if always_send or new_items or problems`
ShouldSend(flag, items, probs) == flag \/ items /= <<>> \/ probs /= <<>>

(***************************************************************************)
(* Inputs of a run: the sheets it may start from, and what a fetch may     *)
(* answer.                                                                 *)
(***************************************************************************)
\* watched 5, site 5, total 12, with a link
RowA == Cell("A", "url", <<"5">>, <<"5">>, <<"1", "2">>)

\* complete at 0 (empty cells), without a link
RowB == Cell("B", "", <<>>, <<>>, <<>>)

\* not complete, without a link
RowC == Cell("C", "", <<"3">>, <<"4", " ", "o", "d", "c", ".">>, <<>>)

\* one episode behind the site: 4, 5, 13
RowD == Cell("D", "url", <<"4">>, <<" ", "5">>, <<"1", "3">>)

\* complete at 7, with a link
RowE == Cell("E", "url", <<"7">>, <<"7">>, <<"7">>)

\* the tracked series, in the order the sheet lists them
Catalogue == <<RowA, RowB, RowC, RowD, RowE>>

RowSet == {Catalogue[i] : i \in 1..Len(Catalogue)}

Position(row) == CHOOSE i \in 1..Len(Catalogue) : Catalogue[i] = row

\* every sheet of at most MaxRows data rows: one row per series, in the
\* catalogue's order
Sheets ==
  {q \in SeqsUpTo(RowSet, MaxRows) :
     \A i, j \in 1..Len(q) : i < j => Position(q[i]) < Position(q[j])}

\* "Odcinek 6" without an image, "Odcinek 7" with one
PageScenario == Html(FALSE, <<TagReady6, TagImg7>>)

FetchPages ==
  {PageScenario,
   Html(FALSE, <<TagImg7>>),
   Html(FALSE, <<TagSplit13>>),
   Html(FALSE, <<TagLower8>>)}

Responses ==
  {Response(TRUE, 0, NoPage), Response(FALSE, 404, PageScenario)}
    \cup {Response(FALSE, 200, page) : page \in FetchPages}

NoResponse == [raises |-> FALSE, status_code |-> 0]

(***************************************************************************)
(* State.                                                                  *)
(***************************************************************************)
VARIABLES
  sheet,        \* the spreadsheet's data rows; the only state kept between runs
  pc,           \* "idle", "rows" (in main's loop), "returned", "raised"
  always_send,  \* ALWAYS_SEND of this run
  rows,         \* main's rows: the SeriesRow list read at the start of the run
  idx,          \* the position of the loop `for s in rows`
  new_items,    \* main's new_items
  problems,     \* main's problems
  result,       \* main's result: what check_series returned last
  ret,          \* main's return value, None until it returns
  resp,         \* whether session.get raised last, and the status code it gave
  fetched,      \* row_idx of every row fetched in this run
  attempts,     \* every update_cell call of this run, in order
  sends,        \* calls of send_email for the summary in this run
  lastDet,      \* per row: <<latest_ready, max_found>> of the last pass whose writes all succeeded
  html,         \* the page given to find_episodes (detector alone)
  scan          \* what find_episodes returned for html (detector alone)

vars ==
  <<sheet, pc, always_send, rows, idx, new_items, problems, result, ret, resp,
    fetched, attempts, sends, lastDet, html, scan>>

Init ==
  /\ sheet \in Sheets
  /\ pc = "idle"
  /\ always_send = FALSE
  /\ rows = <<>>
  /\ idx = 1
  /\ new_items = <<>>
  /\ problems = <<>>
  /\ result = NoResult
  /\ ret = None
  /\ resp = NoResponse
  /\ fetched = {}
  /\ attempts = <<>>
  /\ sends = 0
  /\ lastDet = [k \in 1..Len(sheet) |-> None]
  /\ html = NoPage
  /\ scan = NoResult

(***************************************************************************)
(* main(), step 1: the sheet is read.                                      *)
(***************************************************************************)
StartRun ==
  /\ pc \in {"idle", "returned", "raised"}
  /\ \E flag \in BOOLEAN : always_send' = flag
  /\ rows' = read_series(sheet)
  /\ pc' = "rows"
  /\ idx' = 1
  /\ new_items' = <<>>
  /\ problems' = <<>>
  /\ result' = NoResult
  /\ ret' = None
  /\ resp' = NoResponse
  /\ fetched' = {}
  /\ attempts' = <<>>
  /\ sends' = 0
  /\ UNCHANGED <<sheet, lastDet, html, scan>>

\* the sheet cannot be read: the fallback mail is tried, main returns 2
ReadFailed ==
  /\ pc \in {"idle", "returned", "raised"}
  /\ \E flag \in BOOLEAN : always_send' = flag
  /\ rows' = <<>>
  /\ pc' = "returned"
  /\ ret' = Some(2)
  /\ idx' = 1
  /\ new_items' = <<>>
  /\ problems' = <<>>
  /\ result' = NoResult
  /\ resp' = NoResponse
  /\ fetched' = {}
  /\ attempts' = <<>>
  /\ sends' = 0
  /\ UNCHANGED <<sheet, lastDet, html, scan>>

(***************************************************************************)
(* main(), step 3: one pass of the loop `for s in rows`.                   *)
(***************************************************************************)
\* `if s.is_done: continue`
SkipDone ==
  /\ pc = "rows" /\ idx <= Len(rows)
  /\ is_done(rows[idx])
  /\ idx' = idx + 1
  /\ UNCHANGED <<sheet, pc, always_send, rows, new_items, problems, result, ret,
                 resp, fetched, attempts, sends, lastDet, html, scan>>

\* `if not s.link: problems.append(...); continue`
MissingLink ==
  /\ pc = "rows" /\ idx <= Len(rows)
  /\ ~is_done(rows[idx])
  /\ rows[idx].link = ""
  /\ problems' = Append(problems, Msg("no_link", rows[idx].nazwa, 0))
  /\ idx' = idx + 1
  /\ UNCHANGED <<sheet, pc, always_send, rows, new_items, result, ret,
                 resp, fetched, attempts, sends, lastDet, html, scan>>

\* the row's error is recorded: `problems.append(result.error); continue`
RecordError(res) ==
  /\ problems' = Append(problems, res.error[1])
  /\ idx' = idx + 1
  /\ UNCHANGED <<sheet, pc, rows, new_items, attempts, lastDet>>

\* steps 3a and 3b for row s, with what the two update_cell calls do
Reconcile(s, res, w1, w2) ==
  LET latest_ready == OrZero(res.latest_ready)
      max_found    == OrZero(res.max_found)
      loc0 == [sheet |-> sheet, s |-> s, problems |-> problems,
               attempts |-> attempts, raised |-> FALSE]
      loc1 == SiteUpdate(loc0, latest_ready, w1)
      loc2 == IF loc1.raised THEN loc1 ELSE TotalUpdate(loc1, max_found, w2)
      clean == \A i \in (Len(attempts) + 1)..Len(loc2.attempts) :
                  loc2.attempts[i].outcome = "ok"
  IN  /\ sheet' = loc2.sheet
      /\ rows' = [rows EXCEPT ![idx] = loc2.s]
      /\ problems' = loc2.problems
      /\ attempts' = loc2.attempts
      /\ IF loc2.raised
         THEN /\ pc' = "raised"
              /\ UNCHANGED <<idx, new_items, lastDet>>
         ELSE /\ pc' = pc
              /\ idx' = idx + 1
              /\ new_items' = IF ShouldNotify(loc2.s)
                              THEN Append(new_items, Item(loc2.s))
                              ELSE new_items
              /\ lastDet' = IF clean
                            THEN [lastDet EXCEPT ![idx] = <<latest_ready, max_found>>]
                            ELSE lastDet

\* check_series, then either the error is recorded or the row is reconciled
CheckRow ==
  /\ pc = "rows" /\ idx <= Len(rows)
  /\ ~is_done(rows[idx])
  /\ rows[idx].link /= ""
  /\ \E r \in Responses :
       LET res == check_series(r, rows[idx])
       IN  /\ resp' = [raises |-> r.raises, status_code |-> r.status_code]
           /\ result' = res
           /\ fetched' = fetched \cup {rows[idx].row_idx}
           /\ IF Truthy(res.error)
              THEN RecordError(res)
              ELSE \E w1 \in WriteOutcomes, w2 \in WriteOutcomes :
                     Reconcile(rows[idx], res, w1, w2)
  /\ UNCHANGED <<always_send, ret, sends, html, scan>>

(***************************************************************************)
(* main(), step 4: the e-mail, and the return.                             *)
(***************************************************************************)
\* the send is attempted; sent says whether send_email returned
SendEmail ==
  /\ pc = "rows" /\ idx > Len(rows)
  /\ ShouldSend(always_send, new_items, problems)
  /\ \E sent \in BOOLEAN : ret' = IF sent THEN Some(0) ELSE Some(3)
  /\ sends' = sends + 1
  /\ pc' = "returned"
  /\ UNCHANGED <<sheet, always_send, rows, idx, new_items, problems, result,
                 resp, fetched, attempts, lastDet, html, scan>>

\* "Brak zmian": nothing is sent
NoEmail ==
  /\ pc = "rows" /\ idx > Len(rows)
  /\ ~ShouldSend(always_send, new_items, problems)
  /\ ret' = Some(0)
  /\ pc' = "returned"
  /\ UNCHANGED <<sheet, always_send, rows, idx, new_items, problems, result,
                 resp, fetched, attempts, sends, lastDet, html, scan>>

Next ==
  \/ StartRun
  \/ ReadFailed
  \/ SkipDone
  \/ MissingLink
  \/ CheckRow
  \/ SendEmail
  \/ NoEmail

Spec == Init /\ [][Next]_vars

(***************************************************************************)
(* The detector alone: find_episodes applied to every page.                *)
(***************************************************************************)
InitFind ==
  /\ html \in Pages
  /\ scan = NoResult
  /\ sheet = <<>>
  /\ pc = "idle"
  /\ always_send = FALSE
  /\ rows = <<>>
  /\ idx = 1
  /\ new_items = <<>>
  /\ problems = <<>>
  /\ result = NoResult
  /\ ret = None
  /\ resp = NoResponse
  /\ fetched = {}
  /\ attempts = <<>>
  /\ sends = 0
  /\ lastDet = <<>>

\* the page is scanned
Scan ==
  /\ pc = "idle"
  /\ scan' = find_episodes(html)
  /\ pc' = "scanned"
  /\ UNCHANGED <<html, sheet, always_send, rows, idx, new_items, problems, result,
                 ret, resp, fetched, attempts, sends, lastDet>>

NextFind == Scan

SpecFind == InitFind /\ [][NextFind]_vars

(***************************************************************************)
(* Properties.                                                             *)
(***************************************************************************)
\* the number a run reads from cell col of data row k
Stored(ws, k, col) == parse_int(ws[k][col], 0)

\* the positions in attempts' of the update_cell calls made by the step
NewAttempts == (Len(attempts) + 1)..Len(attempts')

\* the step fetched the page of row idx
FetchStep == pc = "rows" /\ fetched' /= fetched

Cols == {"odcinek_na_stronie", "liczba_odcinkow"}

\* the run has ended (by return or by an uncaught exception) after reading the sheet
RunEnded == pc \in {"returned", "raised"} /\ ret /= Some(2)

\* C1: every failed update_cell call of the run, whatever the store raised,
\* is recorded in problems and leaves the run going (it is never ended by
\* the exception).
C1_WriteFailureRecorded ==
  \A i \in 1..Len(attempts) :
    attempts[i].outcome /= "ok" =>
      /\ pc /= "raised"
      /\ \E j \in 1..Len(problems) :
           /\ problems[j].kind = (IF attempts[i].col = "odcinek_na_stronie"
                                  THEN "update_site" ELSE "update_total")
           /\ problems[j].nazwa = rows[attempts[i].row_idx - 1].nazwa

C2_Step ==
  /\ Len(sheet') = Len(sheet)
  /\ \A k \in 1..Len(sheet), col \in Cols :
       /\ Stored(sheet', k, col) >= Stored(sheet, k, col)
       /\ sheet'[k][col] /= sheet[k][col] =>
            \E i \in NewAttempts :
              attempts'[i] = Attempt(k + 1, col, Stored(sheet', k, col), "ok")
  /\ \A i \in NewAttempts :
       /\ attempts'[i].value > Stored(sheet, attempts'[i].row_idx - 1, attempts'[i].col)
       /\ attempts'[i].value =
            (IF attempts'[i].col = "odcinek_na_stronie"
             THEN OrZero(result'.latest_ready) ELSE OrZero(result'.max_found))

\* C2: update_cell is called only with a detected value (absent counting as
\* 0) strictly above the stored one, a cell changes only by a successful
\* call, and no step of any run lowers a stored odcinek_na_stronie or
\* liczba_odcinkow.
C2_StoreNeverDecreases == [][C2_Step]_vars

\* a run that had a successful and a failed write, the successful one stored
C2_Witness ==
  /\ pc = "returned"
  /\ \E i, j \in 1..Len(attempts) :
       /\ attempts[i].outcome = "ok"
       /\ attempts[j].outcome = "APIError"
       /\ Stored(sheet, attempts[i].row_idx - 1, attempts[i].col) = attempts[i].value

C3_Step ==
  ( /\ pc = "rows" /\ idx <= Len(rows)
    /\ rows[idx].obejrzany_odcinek = rows[idx].odcinek_na_stronie
    /\ rows[idx].odcinek_na_stronie = rows[idx].liczba_odcinkow )
  => /\ fetched' = fetched
     /\ attempts' = attempts
     /\ sheet' = sheet
     /\ problems' = problems
     /\ new_items' = new_items
     /\ rows' = rows
     /\ idx' = idx + 1
     /\ pc' = "rows"

\* C3: the pass of the loop over a row with obejrzany_odcinek ==
\* odcinek_na_stronie == liczba_odcinkow fetches nothing, writes nothing and
\* adds nothing to problems or new_items, whatever the row's link and value.
C3_DoneRowSkipped == [][C3_Step]_vars

\* two complete rows passed: one at 0 without a link, one with a link
C3_Witness ==
  /\ pc = "rows" /\ Len(rows) = 2 /\ idx = 3
  /\ \A k \in 1..2 : rows[k].obejrzany_odcinek = rows[k].odcinek_na_stronie
                     /\ rows[k].odcinek_na_stronie = rows[k].liczba_odcinkow
  /\ \E k \in 1..2 : rows[k].link = "" /\ rows[k].obejrzany_odcinek = 0
  /\ \E k \in 1..2 : rows[k].link /= ""
  /\ fetched = {} /\ problems = <<>> /\ new_items = <<>>

C4_Step ==
  ( /\ FetchStep
    /\ resp'.raises \/ resp'.status_code /= 200 \/ result'.error /= None )
  => /\ result'.error /= None
     /\ result'.latest_ready = None
     /\ result'.max_found = None
     /\ Len(problems') = Len(problems) + 1
     /\ SubSeq(problems', 1, Len(problems)) = problems
     /\ problems'[Len(problems')] = result'.error[1]
     /\ (~resp'.raises /\ resp'.status_code /= 200) =>
          /\ problems'[Len(problems')].nazwa = rows[idx].nazwa
          /\ problems'[Len(problems')].code = resp'.status_code
     /\ sheet' = sheet
     /\ attempts' = attempts
     /\ new_items' = new_items
     /\ idx' = idx + 1
     /\ pc' = "rows"

\* C4: when the fetch of a row raises, answers another status than 200, or
\* the scan fails, check_series returns an error and no numbers, exactly one
\* problem is appended (with the series name and the status code for a
\* non-200 answer), nothing is written or notified for the row, and the loop
\* goes on to the next row.
C4_FetchFailureIsolated == [][C4_Step]_vars

\* the first row answered 404 and the second row was fetched and reconciled
C4_Witness ==
  /\ pc = "rows" /\ Len(rows) = 2 /\ idx = 3
  /\ fetched = {2, 3}
  /\ problems /= <<>> /\ problems[1] = Msg("http", rows[1].nazwa, 404)
  /\ result.error = None
  /\ \A i \in 1..Len(attempts) : attempts[i].row_idx = 3

\* the numbers the toggler headings of html carry, with the image flag
TogglerNumbers(withImage) ==
  {extract_episode_number(get_text(html.tags[k].children))[1] :
     k \in {j \in 1..Len(html.tags) :
              /\ \E c \in 1..Len(html.tags[j].class) :
                   Contains(html.tags[j].class[c], TogglerWord)
              /\ extract_episode_number(get_text(html.tags[j].children)) /= None
              /\ withImage \/ \A n \in 1..Len(html.tags[j].children) :
                                ~html.tags[j].children[n].img}}

MaxOrNone(S) == IF S = {} THEN None ELSE Some(SetMax(S))

\* C5: max_found is the maximum over the numbered toggler headings,
\* latest_ready the maximum over those without an image, each absent when
\* there is none, and error is set exactly when both are absent.
C5_FindEpisodes ==
  pc = "scanned" =>
    /\ ~html.malformed =>
         /\ scan.max_found = MaxOrNone(TogglerNumbers(TRUE))
         /\ scan.latest_ready = MaxOrNone(TogglerNumbers(FALSE))
    /\ scan.error /= None <=> (scan.latest_ready = None /\ scan.max_found = None)

\* every numbered heading has an image: a maximum, nothing ready, no failure
C5_Witness ==
  /\ pc = "scanned"
  /\ Len(html.tags) = 2
  /\ scan = EpisodeCheckResult(None, Some(12), None)

\* C6: a toggler heading that spells "Odcinek <digits>" in any letter case
\* contributes its number to max_found, and to latest_ready when it has no
\* image.
C6_CaseInsensitive ==
  (pc = "scanned" /\ ~html.malformed) =>
    \A k \in 1..Len(html.tags) :
      LET n == EPISODE_RE(get_text(html.tags[k].children))
      IN  (IsToggler(html.tags[k]) /\ n /= None) =>
            /\ scan.max_found /= None /\ scan.max_found[1] >= n[1]
            /\ ~has_img(html.tags[k]) =>
                 scan.latest_ready /= None /\ scan.latest_ready[1] >= n[1]

\* the row of the scenario: watched 5, site 5, total 12
ScenarioRow(s) ==
  s.obejrzany_odcinek = 5 /\ s.odcinek_na_stronie = 5 /\ s.liczba_odcinkow = 12

C7_Step ==
  (FetchStep /\ result'.error = None /\ pc' = "rows") =>
    /\ IF rows'[idx].obejrzany_odcinek < rows'[idx].odcinek_na_stronie
       THEN new_items' =
              Append(new_items,
                     [tytul |-> rows[idx].nazwa,
                      nowy_odcinek |-> rows'[idx].odcinek_na_stronie,
                      ostatni_obejrzany |-> rows[idx].obejrzany_odcinek,
                      link |-> rows[idx].link])
       ELSE new_items' = new_items
    /\ ( /\ ScenarioRow(rows[idx])
         /\ result' = EpisodeCheckResult(Some(6), Some(7), None)
         /\ \A i \in NewAttempts : attempts'[i].outcome = "ok" )
       => /\ attempts' = Append(attempts, Attempt(idx + 1, "odcinek_na_stronie", 6, "ok"))
          /\ Stored(sheet', idx, "odcinek_na_stronie") = 6
          /\ sheet'[idx].liczba_odcinkow = sheet[idx].liczba_odcinkow
          /\ new_items'[Len(new_items')].nowy_odcinek = 6
          /\ new_items'[Len(new_items')].ostatni_obejrzany = 5

\* C7: a row whose fetch and scan succeeded and whose two updates are over
\* gets a notification item exactly when obejrzany_odcinek <
\* odcinek_na_stronie of the in-memory row then, and the item carries the
\* row's current values; for the row 5/5/12 with 6 and 7 detected and a store
\* that takes the write, the site cell becomes 6, the total cell is left
\* alone and the item is (6, 5).
C7_NotificationItem == [][C7_Step]_vars

\* the scenario has happened
C7_Witness ==
  /\ pc = "rows"
  /\ \E k \in 1..Len(rows) :
       /\ idx = k + 1
       /\ rows[k].nazwa = "A"
       /\ rows[k].odcinek_na_stronie = 6 /\ rows[k].liczba_odcinkow = 12
       /\ result = EpisodeCheckResult(Some(6), Some(7), None)
       /\ attempts /= <<>>
       /\ attempts[Len(attempts)] = Attempt(k + 1, "odcinek_na_stronie", 6, "ok")
       /\ new_items /= <<>>
       /\ new_items[Len(new_items)] =
            [tytul |-> "A", nowy_odcinek |-> 6, ostatni_obejrzany |-> 5, link |-> "url"]

C8_Step ==
  pc = "rows" =>
    \A i \in NewAttempts :
      LET a == attempts'[i]
          d == lastDet[a.row_idx - 1]
      IN  d /= None =>
            a.value > (IF a.col = "odcinek_na_stronie" THEN d[1] ELSE d[2])

\* C8: once a pass over a row ended with every write it made accepted, a
\* later pass over that row calls update_cell only with a value strictly
\* above the one detected then: detecting the same or lower numbers again
\* writes nothing.
C8_Idempotent == [][C8_Step]_vars

\* a run wrote 6 and 13 for 6 and 13 detected; a later run detected 6 and 13 again and wrote nothing
C8_Witness ==
  /\ pc = "rows" /\ idx = 2 /\ fetched = {2}
  /\ attempts = <<>>
  /\ result = EpisodeCheckResult(Some(13), Some(13), None)
  /\ lastDet[1] = <<13, 13>>
  /\ Stored(sheet, 1, "odcinek_na_stronie") = 13
  /\ Stored(sheet, 1, "liczba_odcinkow") = 13
  /\ rows[1].nazwa = "A"

\* C9: a run that read the sheet calls send_email for the summary at most
\* once, and exactly when always_send is set or new_items or problems is
\* non-empty; without a send it returns 0, and a failed send returns 3.
C9_SummarySend ==
  RunEnded =>
    /\ sends <= 1
    /\ sends = 1 <=> (always_send \/ new_items /= <<>> \/ problems /= <<>>)
    /\ sends = 0 => ret = Some(0)
    /\ sends = 1 => ret \in {Some(0), Some(3)}

C10_Step ==
  (pc' \in {"rows", "returned", "raised"} /\ ret' /= Some(2)) =>
    /\ \A k \in 1..Len(rows') :
         /\ rows'[k].odcinek_na_stronie = Stored(sheet', k, "odcinek_na_stronie")
         /\ rows'[k].liczba_odcinkow = Stored(sheet', k, "liczba_odcinkow")
    /\ \A i \in NewAttempts :
         attempts'[i].outcome /= "ok" =>
           rows'[idx][attempts'[i].col] = rows[idx][attempts'[i].col]
    /\ Len(new_items') > Len(new_items) =>
         new_items'[Len(new_items')].nowy_odcinek = Stored(sheet', idx, "odcinek_na_stronie")

\* C10: after every step of a run the in-memory odcinek_na_stronie and
\* liczba_odcinkow of each row equal the sheet's cells, a failed write leaves
\* the in-memory field as it was, and an item appended carries the stored
\* odcinek_na_stronie of its row.
C10_MemoryFollowsStore == [][C10_Step]_vars

\* the write of 6 failed for row D (4/5/13) and its item carries the stored 5
C10_Witness ==
  /\ pc = "rows"
  /\ \E k \in 1..Len(rows) :
       /\ idx = k + 1
       /\ \E i \in 1..Len(attempts) :
            attempts[i] = Attempt(k + 1, "odcinek_na_stronie", 6, "APIError")
       /\ Stored(sheet, k, "odcinek_na_stronie") = 5
       /\ new_items /= <<>>
       /\ new_items[Len(new_items)].tytul = rows[k].nazwa
       /\ new_items[Len(new_items)].nowy_odcinek = 5
       /\ new_items[Len(new_items)].ostatni_obejrzany = 4

====
